---- MODULE Spec2Model ----
(***************************************************************************)
(* Model of amtrak_status.py: the reconciliation of two upstream sources   *)
(* (the Amtraker v3 realtime API and the ASMAD archive) into one           *)
(* append-only CSV store, keyed by (date, station, train_num).             *)
(*                                                                         *)
(* Text is modelled structurally.  A calendar date is a day number; a      *)
(* date string is a record that names its textual format and the day it    *)
(* denotes; a timestamp string is a record that names its format, its      *)
(* day, its second of the day and its UTC offset.  Station cells and date  *)
(* cells are text without carriage returns, which the csv module writes    *)
(* and reads back unchanged.                                               *)
(***************************************************************************)
EXTENDS Integers, Sequences, FiniteSets, TLC

VARIABLES
    store,          \* data rows of auto_train_status.csv, in file order
    fileExists,     \* os.path.exists(CSV_FILE)
    today,          \* datetime.now().date(), as a day number
    pc,             \* "idle", "daily" or "backfill": the run in progress
    target_date,    \* run_daily: its argument in the latest single-date run,
                    \* kept where the endpoints' answers are fixed
    dt,             \* run_daily: the target date of the run
    start,          \* run_backfill: first day of the range
    end,            \* run_backfill: last day of the range
    idx,            \* position of the loop over TRAIN_CONFIG.items()
    status,         \* how the latest run ended so far: "ok" or "raised"
    last,           \* what the latest loop iteration did (calls it made)
    runs,           \* number of runs started
    mode,           \* mode of the latest run started: "none", "daily", "backfill"
    storeAtStart,   \* the store when the current run started
    prev,           \* mode, target date and end of the run before the latest one
    ticked,         \* the date changed since the current run started
    tickedPrev,     \* the date changed between the previous run's start and this one's
    rtSrc,          \* what the realtime endpoint answers, per train
    asmadSrc,       \* what the archive endpoint answers, per train
    scheduled,      \* parse_delay_minutes: first argument
    actual,         \* parse_delay_minutes: second argument
    delay,          \* parse_delay_minutes: whether it was called, and its result
    headerRow,      \* fetch_asmad: the cells of the data table's first row
    cols            \* fetch_asmad: whether the columns were resolved, and the idx_* values

vars == <<store, fileExists, today, pc, dt, start, end, idx, status, last,
          runs, mode, storeAtStart, prev, ticked, tickedPrev, target_date,
          rtSrc, asmadSrc,
          scheduled, actual, delay, headerRow, cols>>

runVars == <<store, fileExists, today, pc, dt, start, end, idx, status, last,
             runs, mode, storeAtStart, prev, ticked, tickedPrev, target_date>>

srcVars == <<rtSrc, asmadSrc>>

delayVars == <<scheduled, actual, delay>>

colVars == <<headerRow, cols>>

(***************************************************************************)
(* Bounds of the model.                                                    *)
(***************************************************************************)
MaxDay == 2

MaxRuns == 2

(***************************************************************************)
(* Route configuration.                                                    *)
(***************************************************************************)
TrainOrder == <<53, 52>>

TRAIN_CONFIG ==
    [t \in {53, 52} |-> IF t = 53 THEN <<"LOR", "SFA">> ELSE <<"SFA", "LOR">>]

DefaultBackfillDays == 7

Range(s) == {s[i] : i \in 1..Len(s)}

(***************************************************************************)
(* Text values.                                                            *)
(***************************************************************************)
Days == 1..MaxDay

\* A date string in the format YYYY-MM-DD, as strftime("%Y-%m-%d") writes it.
Ymd(d) == [fmt |-> "ymd", v |-> d]

\* The None of train_date before a service date is derived.
NoDate == [fmt |-> "none", v |-> 0]

\* The empty string, where a date is expected.
EmptyText == [fmt |-> "raw", v |-> 0]

\* Timestamp strings.
TsEmpty == [k |-> "empty", d |-> 0, s |-> 0, off |-> 0]

TsJunk == [k |-> "junk", d |-> 0, s |-> 0, off |-> 0]

\* ISO-8601 with a UTC offset: 2026-02-10T08:00:00-05:00
TsIsoTz(d, s, off) == [k |-> "isoTz", d |-> d, s |-> s, off |-> off]

\* ISO-8601 without an offset: 2026-02-10T08:00:00
TsIso(d, s) == [k |-> "iso", d |-> d, s |-> s, off |-> 0]

\* Slash date and 24-hour time: 02/10/2026 08:00
TsSlash(d, s) == [k |-> "slash", d |-> d, s |-> s, off |-> 0]

DaySeconds == 86400

\* Python's round(): to the nearest integer, ties to the even one.
Round(secs) ==
    LET q == secs \div 60
        r == secs % 60
    IN  IF r < 30 THEN q
        ELSE IF r > 30 THEN q + 1
        ELSE IF q % 2 = 0 THEN q ELSE q + 1

None == <<>>

Some(n) == <<n>>

\* datetime.strptime(text, fmt) for the two entries of fmt_options: the
\* outcome is a parsed value or a ValueError (ok = FALSE).
Strptime(ts, fmt) ==
    IF fmt = "%Y-%m-%dT%H:%M:%S%z" /\ ts.k = "isoTz"
    THEN [ok |-> TRUE, aware |-> TRUE, t |-> ts.d * DaySeconds + ts.s, off |-> ts.off]
    ELSE IF fmt = "%m/%d/%Y %H:%M" /\ ts.k = "slash"
    THEN [ok |-> TRUE, aware |-> FALSE, t |-> ts.d * DaySeconds + ts.s, off |-> 0]
    ELSE [ok |-> FALSE, aware |-> FALSE, t |-> 0, off |-> 0]

fmt_options == <<"%Y-%m-%dT%H:%M:%S%z", "%m/%d/%Y %H:%M">>

\* The loop over fmt_options: the first format that parses wins.
TryFormats(ts) ==
    LET a == Strptime(ts, fmt_options[1])
        b == Strptime(ts, fmt_options[2])
    IN  IF a.ok THEN a ELSE b

\* StripTz without the two replace(tzinfo=None) branches.
KeepTz(sch, act) == <<sch, act>>

\* "Strip timezone info if only one has it": the pair (sch, act) afterwards.
StripTz(sch, act) ==
    IF sch.aware /\ ~act.aware THEN <<[sch EXCEPT !.aware = FALSE, !.off = 0], act>>
    ELSE IF act.aware /\ ~sch.aware THEN <<sch, [act EXCEPT !.aware = FALSE, !.off = 0]>>
    ELSE <<sch, act>>

\* (act - sch).total_seconds(): a TypeError when exactly one of the two
\* carries a timezone, the difference of the instants when both do, the
\* difference of the wall-clock times when neither does.
Subtract(act, sch) ==
    IF act.aware # sch.aware THEN [err |-> TRUE, secs |-> 0]
    ELSE IF act.aware THEN [err |-> FALSE, secs |-> (act.t - act.off) - (sch.t - sch.off)]
    ELSE [err |-> FALSE, secs |-> act.t - sch.t]

\* A call of parse_delay_minutes: whether an exception leaves it, and the
\* value it returns.  An exception inside the try block ends in "return None".
DelayCall(sch_text, act_text) ==
    IF sch_text.k = "empty" \/ act_text.k = "empty"
    THEN [raised |-> FALSE, val |-> None]
    ELSE LET sch == TryFormats(sch_text)
             act == TryFormats(act_text)
             pair == StripTz(sch, act)
             delta == Subtract(pair[2], pair[1])
         IN  IF sch.ok /\ act.ok /\ ~delta.err
             THEN [raised |-> FALSE, val |-> Some(Round(delta.secs))]
             ELSE [raised |-> FALSE, val |-> None]

parse_delay_minutes(sch_text, act_text) == DelayCall(sch_text, act_text).val

(***************************************************************************)
(* Realtime source: the Amtraker v3 API.                                   *)
(*                                                                         *)
(* A response is a transport outcome: kind "neterr" (requests.get raised), *)
(* "status" (raise_for_status raised), "badjson" (resp.json() raised) or   *)
(* "json" with the decoded value in data.  A JSON value has a type t:      *)
(* "null", "scalar", "list" (items) or "map" (one key, whose value is the  *)
(* list items).  A train instance and a station entry are JSON values too: *)
(* "map" with the fields below, or "scalar".                               *)
(***************************************************************************)
JsonNull == [t |-> "null", key |-> "", items |-> <<>>]

JsonScalar == [t |-> "scalar", key |-> "", items |-> <<>>]

JsonList(items) == [t |-> "list", key |-> "", items |-> items]

JsonMap(key, items) == [t |-> "map", key |-> key, items |-> items]

Instance(stns) == [t |-> "map", stations |-> stns]

ScalarInstance == [t |-> "scalar", stations |-> <<>>]

Stn(code, schArr, arr, schDep, dep) ==
    [t |-> "map", code |-> code, schArr |-> schArr, arr |-> arr,
     schDep |-> schDep, dep |-> dep, status |-> "Enroute"]

ScalarStn ==
    [t |-> "scalar", code |-> "", schArr |-> TsEmpty, arr |-> TsEmpty,
     schDep |-> TsEmpty, dep |-> TsEmpty, status |-> ""]

\* datetime.fromisoformat(text).strftime("%Y-%m-%d"), or the except branch.
ServiceDateOf(sch_dep, now) ==
    IF sch_dep.k \in {"isoTz", "iso"} THEN Ymd(sch_dep.d) ELSE Ymd(now)

\* The delay column of a row: "" unless both texts are non-empty.
DelayCell(sch_text, act_text) ==
    IF sch_text.k # "empty" /\ act_text.k # "empty"
    THEN parse_delay_minutes(sch_text, act_text)
    ELSE None

RealtimeRow(train_date, train_num, stn) ==
    [date |-> train_date,
     train_num |-> ToString(train_num),
     station |-> stn.code,
     scheduled_arrival |-> stn.schArr,
     actual_arrival |-> stn.arr,
     arrival_delay_mins |-> DelayCell(stn.schArr, stn.arr),
     scheduled_departure |-> stn.schDep,
     actual_departure |-> stn.dep,
     departure_delay_mins |-> DelayCell(stn.schDep, stn.dep),
     status |-> stn.status,
     source |-> "amtraker_v3"]

\* The loop over one instance's stations, from position i, with the
\* train_date derived so far: the rows it adds, or raised when an entry is
\* no mapping (stn.get fails).
RECURSIVE StationRows(_, _, _, _, _, _)
StationRows(stns, i, train_date, train_num, stations, now) ==
    IF i > Len(stns) THEN [raised |-> FALSE, rows |-> <<>>]
    ELSE LET stn == stns[i]
         IN  IF stn.t # "map" THEN [raised |-> TRUE, rows |-> <<>>]
             ELSE IF stn.code \notin Range(stations)
             THEN StationRows(stns, i + 1, train_date, train_num, stations, now)
             ELSE LET origin_station == stations[1]
                      d1 == IF stn.code = origin_station /\ stn.schDep.k # "empty"
                            THEN ServiceDateOf(stn.schDep, now)
                            ELSE train_date
                      d2 == IF d1 = NoDate THEN Ymd(now) ELSE d1
                      rest == StationRows(stns, i + 1, d2, train_num, stations, now)
                  IN  [raised |-> rest.raised,
                       rows |-> IF rest.raised THEN <<>>
                                ELSE <<RealtimeRow(d2, train_num, stn)>> \o rest.rows]

\* The loop over the train instances, from position i.
RECURSIVE TrainRows(_, _, _, _, _)
TrainRows(trains, i, train_num, stations, now) ==
    IF i > Len(trains) THEN [raised |-> FALSE, rows |-> <<>>]
    ELSE LET train == trains[i]
         IN  IF train.t # "map" THEN [raised |-> TRUE, rows |-> <<>>]
             ELSE LET here == StationRows(train.stations, 1, NoDate, train_num, stations, now)
                      rest == TrainRows(trains, i + 1, train_num, stations, now)
                  IN  IF here.raised \/ rest.raised
                      THEN [raised |-> TRUE, rows |-> <<>>]
                      ELSE [raised |-> FALSE, rows |-> here.rows \o rest.rows]

\* fetch_realtime: its rows, or raised when an exception leaves it.
fetch_realtime(resp, train_num, stations, now) ==
    IF resp.kind # "json" THEN [raised |-> FALSE, rows |-> <<>>]
    ELSE LET data == resp.data
         IN  IF data.t \notin {"list", "map"} THEN [raised |-> TRUE, rows |-> <<>>]
             ELSE LET trains == IF data.t = "list" THEN data.items
                                ELSE IF data.key = ToString(train_num) THEN data.items
                                ELSE <<>>
                  IN  IF trains = <<>> THEN [raised |-> FALSE, rows |-> <<>>]
                      ELSE TrainRows(trains, 1, train_num, stations, now)

(***************************************************************************)
(* Historical source: the ASMAD archive.                                   *)
(*                                                                         *)
(* A response has kind "error" (the request raised), "notables" (no table  *)
(* in the document), "nodatatable" (no table whose header names a station  *)
(* and an origin or train) or "ok"; rows holds the data rows of the table  *)
(* found, each with its number of cells and the cells read at the resolved *)
(* column positions.  A date cell is a record of its format ("mdY" for     *)
(* 02/10/2026, "mdy" for 02/10/26, "ymd" for 2026-02-10, "raw" for any     *)
(* other text) and the day or text it holds.                               *)
(***************************************************************************)
Cells(n, station, origin, schAr, actAr, schDp, actDp) ==
    [ncells |-> n, station |-> station, origin |-> origin, schAr |-> schAr,
     actAr |-> actAr, schDp |-> schDp, actDp |-> actDp, comments |-> ""]

\* Trying "%m/%d/%Y", "%m/%d/%y", "%Y-%m-%d" in turn; the raw text otherwise.
NormalizeOriginDate(origin_date_raw) ==
    IF origin_date_raw.fmt \in {"mdY", "mdy", "ymd"}
    THEN Ymd(origin_date_raw.v)
    ELSE origin_date_raw

AsmadRow(train_num, cells) ==
    [date |-> NormalizeOriginDate(cells.origin),
     train_num |-> ToString(train_num),
     station |-> cells.station,
     scheduled_arrival |-> cells.schAr,
     actual_arrival |-> cells.actAr,
     arrival_delay_mins |-> DelayCell(cells.schAr, cells.actAr),
     scheduled_departure |-> cells.schDp,
     actual_departure |-> cells.actDp,
     departure_delay_mins |-> DelayCell(cells.schDp, cells.actDp),
     status |-> cells.comments,
     source |-> "asmad"]

\* AsmadRows without "if station not in stations: continue".
RECURSIVE AsmadRowsAnyStation(_, _, _, _)
AsmadRowsAnyStation(data_rows, i, train_num, stations) ==
    IF i > Len(data_rows) THEN <<>>
    ELSE LET cells == data_rows[i]
             rest == AsmadRowsAnyStation(data_rows, i + 1, train_num, stations)
         IN  IF cells.ncells < 3 THEN rest
             ELSE <<AsmadRow(train_num, cells)>> \o rest

RECURSIVE AsmadRows(_, _, _, _)
AsmadRows(data_rows, i, train_num, stations) ==
    IF i > Len(data_rows) THEN <<>>
    ELSE LET cells == data_rows[i]
             rest == AsmadRows(data_rows, i + 1, train_num, stations)
         IN  IF cells.ncells < 3 THEN rest
             ELSE IF cells.station \notin Range(stations) THEN rest
             ELSE <<AsmadRow(train_num, cells)>> \o rest

fetch_asmad(resp, train_num, stations) ==
    IF resp.kind # "ok" THEN <<>>
    ELSE AsmadRows(resp.rows, 1, train_num, stations)

(***************************************************************************)
(* Column discovery in fetch_asmad.  A text is the sequence of its         *)
(* characters; an index is None or Some(i), i counted from 0.              *)
(***************************************************************************)
\* str.lower() on the letters the header cells use.
LowerChar(c) ==
    IF c = "S" THEN "s" ELSE IF c = "O" THEN "o" ELSE IF c = "D" THEN "d"
    ELSE IF c = "A" THEN "a" ELSE IF c = "C" THEN "c" ELSE c

Lower(text) == [i \in 1..Len(text) |-> LowerChar(text[i])]

\* k in h
Contains(h, k) ==
    \E i \in 0..(Len(h) - Len(k)) : SubSeq(h, i + 1, i + Len(k)) = k

\* headers = [th.get_text(strip=True).lower() for th in ...]
Headers(row) == [i \in 1..Len(row) |-> Lower(row[i])]

\* all(k in h for k in keywords)
AllIn(h, keywords) == \A j \in 1..Len(keywords) : Contains(h, keywords[j])

\* col_index: the position of the first header holding every keyword.
col_index(headers, keywords) ==
    IF \E i \in 1..Len(headers) : AllIn(headers[i], keywords)
    THEN Some((CHOOSE i \in 1..Len(headers) :
                  /\ AllIn(headers[i], keywords)
                  /\ \A j \in 1..(i - 1) : ~AllIn(headers[j], keywords)) - 1)
    ELSE None

\* Python's "a or b" on two results of col_index: b when a is None or 0.
OrElse(a, b) == IF a = None \/ a = Some(0) THEN b ELSE a

KwStation == <<<<"s", "t", "a", "t", "i", "o", "n">>>>
KwOrigin == <<<<"o", "r", "i", "g", "i", "n">>>>
KwDate == <<<<"d", "a", "t", "e">>>>
KwSchAr == <<<<"s", "c", "h">>, <<"a", "r">>>>
KwActAr == <<<<"a", "c", "t">>, <<"a", "r">>>>
KwSchDp == <<<<"s", "c", "h">>, <<"d", "p">>>>
KwSchDep == <<<<"s", "c", "h">>, <<"d", "e", "p">>>>
KwActDp == <<<<"a", "c", "t">>, <<"d", "p">>>>
KwActDep == <<<<"a", "c", "t">>, <<"d", "e", "p">>>>
KwComment == <<<<"c", "o", "m", "m", "e", "n", "t">>>>
KwStatus == <<<<"s", "t", "a", "t", "u", "s">>>>

\* The idx_* values before the header row is read.
NoCols ==
    [done |-> FALSE, idx_station |-> None, idx_origin_date |-> None,
     idx_sch_arr |-> None, idx_act_arr |-> None, idx_sch_dep |-> None,
     idx_act_dep |-> None, idx_comments |-> None]

\* The idx_* assignments.
ResolveColumns(row) ==
    LET headers == Headers(row)
    IN  [done |-> TRUE,
         idx_station |-> col_index(headers, KwStation),
         idx_origin_date |-> OrElse(col_index(headers, KwOrigin), col_index(headers, KwDate)),
         idx_sch_arr |-> col_index(headers, KwSchAr),
         idx_act_arr |-> col_index(headers, KwActAr),
         idx_sch_dep |-> OrElse(col_index(headers, KwSchDp), col_index(headers, KwSchDep)),
         idx_act_dep |-> OrElse(col_index(headers, KwActDp), col_index(headers, KwActDep)),
         idx_comments |-> OrElse(col_index(headers, KwComment), col_index(headers, KwStatus))]

(***************************************************************************)
(* Record store: auto_train_status.csv.                                    *)
(***************************************************************************)
\* The key columns of a row.
Key(r) == <<r.date, r.station, r.train_num>>

\* HasKey with train_num compared as the number it is: the file holds text,
\* which never equals a number.
HasKeyUnconverted(csv_rows, date_str, station, train_num) ==
    \E i \in 1..Len(csv_rows) :
        /\ csv_rows[i].date = date_str
        /\ csv_rows[i].station = station
        /\ csv_rows[i].train_num = "int"

\* True iff a row of csv_rows has the key columns given (train_num compared
\* as text, as the file holds it).
HasKey(csv_rows, date_str, station, train_num) ==
    \E i \in 1..Len(csv_rows) :
        /\ csv_rows[i].date = date_str
        /\ csv_rows[i].station = station
        /\ csv_rows[i].train_num = ToString(train_num)

\* date_already_recorded answering True for every key.
AlwaysRecorded(date_str, station, train_num) == TRUE

date_already_recorded(date_str, station, train_num) ==
    IF ~fileExists THEN FALSE
    ELSE HasKey(store, date_str, station, train_num)

\* NewRows with the source column taken as part of the key.
RECURSIVE NewRowsBySource(_, _, _)
NewRowsBySource(rows, i, train_num) ==
    IF i > Len(rows) THEN <<>>
    ELSE LET rest == NewRowsBySource(rows, i + 1, train_num)
             held == \E j \in 1..Len(store) :
                        /\ store[j].date = rows[i].date
                        /\ store[j].station = rows[i].station
                        /\ store[j].train_num = ToString(train_num)
                        /\ store[j].source = rows[i].source
         IN  IF fileExists /\ held THEN rest ELSE <<rows[i]>> \o rest

\* [r for r in rows if not date_already_recorded(r["date"], r["station"], train_num)]
RECURSIVE NewRows(_, _, _)
NewRows(rows, i, train_num) ==
    IF i > Len(rows) THEN <<>>
    ELSE LET rest == NewRows(rows, i + 1, train_num)
         IN  IF date_already_recorded(rows[i].date, rows[i].station, train_num)
             THEN rest
             ELSE <<rows[i]>> \o rest

\* init_csv without the test for an existing file.
InitCsvTruncates == <<>>

\* The file's rows after init_csv(): written anew only when there is no file.
init_csv == IF ~fileExists THEN <<>> ELSE store

\* The file's rows after append_rows(rows).
append_rows(rows) == store \o rows

(***************************************************************************)
(* One iteration of a run's loop over TRAIN_CONFIG: what it calls and what *)
(* it appends.  The log names the train, whether the iteration             *)
(* short-circuited, the number of requests to each adapter, how the        *)
(* realtime call ended, the range asked of the archive, the rows the       *)
(* iteration went on to filter, and the file's rows and the current date   *)
(* when the iteration began.                                               *)
(***************************************************************************)
NoCalls ==
    [train |-> 0, short |-> FALSE, rt |-> 0, rtOut |-> "none",
     hist |-> 0, hstart |-> 0, hend |-> 0, got |-> <<>>,
     before |-> <<>>, now |-> 0]

\* What an iteration leaves: the file's rows, its log, and whether an
\* exception ended the run.
Outcome(rows, log) == [raised |-> FALSE, store |-> rows, log |-> log]

\* FilterAndAppend without the filter.
AppendUnfiltered(rows, train_num) == store \o rows

\* Filtering rows against the file and appending the survivors, if any.
FilterAndAppend(rows, train_num) ==
    LET new_rows == NewRows(rows, 1, train_num)
    IN  IF new_rows # <<>> THEN append_rows(new_rows) ELSE store

\* all(date_already_recorded(date_str, s, train_num) for s in stations)
AllRecorded(date_str, stations, train_num) ==
    \A i \in 1..Len(stations) :
        date_already_recorded(date_str, stations[i], train_num)

\* IsToday without the comparison: the realtime adapter is tried for any date.
AnyDay(d) == TRUE

\* dt == datetime.now().date()
IsToday(d) == d = today

\* AsmadFallback asking the archive for the day before as well.
AsmadFallbackWider(log, asmadResp, train_num, stations) ==
    LET rows == fetch_asmad(asmadResp, train_num, stations)
    IN  [raised |-> FALSE,
         store |-> IF rows # <<>>
                   THEN (IF NewRows(rows, 1, train_num) # <<>>
                         THEN store \o NewRows(rows, 1, train_num) ELSE store)
                   ELSE store,
         log |-> [log EXCEPT !.hist = 1, !.hstart = dt - 1, !.hend = dt, !.got = rows]]

\* The ASMAD part of run_daily's iteration, after the realtime attempt that
\* log describes.
AsmadFallback(log, asmadResp, train_num, stations) ==
    LET rows == fetch_asmad(asmadResp, train_num, stations)
    IN  Outcome(IF rows # <<>> THEN FilterAndAppend(rows, train_num) ELSE store,
                [log EXCEPT !.hist = 1, !.hstart = dt, !.hend = dt, !.got = rows])

\* AfterRealtime going on to the archive when every realtime row is recorded.
AfterRealtimeFallsThrough(log, rt, asmadResp, train_num, stations) ==
    IF rt.rows # <<>> /\ NewRows(rt.rows, 1, train_num) # <<>>
    THEN Outcome(FilterAndAppend(rt.rows, train_num),
                 [log EXCEPT !.rt = 1, !.rtOut = "rows", !.got = rt.rows])
    ELSE AsmadFallback([log EXCEPT !.rt = 1,
                                   !.rtOut = IF rt.rows # <<>> THEN "rows" ELSE "empty"],
                       asmadResp, train_num, stations)

\* The realtime part of run_daily's iteration, once fetch_realtime has
\* returned rt: the rows are filtered and appended, or the archive is tried.
AfterRealtime(log, rt, asmadResp, train_num, stations) ==
    IF rt.rows # <<>>
    THEN Outcome(FilterAndAppend(rt.rows, train_num),
                 [log EXCEPT !.rt = 1, !.rtOut = "rows", !.got = rt.rows])
    ELSE AsmadFallback([log EXCEPT !.rt = 1, !.rtOut = "empty"],
                       asmadResp, train_num, stations)

DailyIteration(rtResp, asmadResp, train_num) ==
    LET stations == TRAIN_CONFIG[train_num]
        date_str == Ymd(dt)
        log == [NoCalls EXCEPT !.train = train_num, !.before = store, !.now = today]
    IN  IF AllRecorded(date_str, stations, train_num)
        THEN Outcome(store, [log EXCEPT !.short = TRUE])
        ELSE IF IsToday(dt)
        THEN LET rt == fetch_realtime(rtResp, train_num, stations, today)
             IN  IF rt.raised
                 THEN [raised |-> TRUE, store |-> store,
                       log |-> [log EXCEPT !.rt = 1, !.rtOut = "raised"]]
                 ELSE AfterRealtime(log, rt, asmadResp, train_num, stations)
        ELSE AsmadFallback(log, asmadResp, train_num, stations)

BackfillIteration(asmadResp, train_num) ==
    LET stations == TRAIN_CONFIG[train_num]
        rows == fetch_asmad(asmadResp, train_num, stations)
    IN  Outcome(IF rows # <<>> THEN FilterAndAppend(rows, train_num) ELSE store,
                [NoCalls EXCEPT !.train = train_num, !.before = store, !.now = today,
                                !.hist = 1, !.hstart = start, !.hend = end,
                                !.got = rows])

(***************************************************************************)
(* The inputs the model draws.                                             *)
(***************************************************************************)
\* 08:00:00 and 08:03:00 at UTC-05:00, on day d.
SchTime(d) == TsIsoTz(d, 28800, 0 - 18000)

ActTime(d) == TsIsoTz(d, 28980, 0 - 18000)

OriginStn(train_num, d) ==
    Stn(TRAIN_CONFIG[train_num][1], TsEmpty, TsEmpty, SchTime(d), ActTime(d))

OriginNoDep(train_num) ==
    Stn(TRAIN_CONFIG[train_num][1], TsEmpty, TsEmpty, TsEmpty, TsEmpty)

OriginJunkDep(train_num) ==
    Stn(TRAIN_CONFIG[train_num][1], TsEmpty, TsEmpty, TsJunk, TsEmpty)

DestStn(train_num, d) ==
    Stn(TRAIN_CONFIG[train_num][2], SchTime(d), ActTime(d), TsEmpty, TsEmpty)

OtherStn == Stn("WAS", TsEmpty, TsEmpty, TsEmpty, TsEmpty)

\* Train instances of a realtime payload.
Instances(train_num) ==
    {Instance(<<OriginStn(train_num, d), DestStn(train_num, d)>>) : d \in Days}
    \cup {Instance(<<OtherStn, OriginNoDep(train_num)>>)}

Json(data) == [kind |-> "json", data |-> data]

Failed(kind) == [kind |-> kind, data |-> JsonNull]

\* What the realtime endpoint may answer for a train.
RtResponses(train_num) ==
    {Failed("neterr"), Failed("status"), Failed("badjson"),
     Json(JsonNull), Json(JsonScalar), Json(JsonList(<<>>)),
     Json(JsonList(<<ScalarInstance>>)),
     Json(JsonList(<<Instance(<<ScalarStn>>)>>)),
     Json(JsonMap("0", <<Instance(<<OriginNoDep(train_num)>>)>>)),
     Json(JsonMap(ToString(train_num), <<Instance(<<OtherStn, OriginNoDep(train_num)>>)>>)),
     Json(JsonList(<<Instance(<<OriginNoDep(train_num)>>),
                     Instance(<<OriginNoDep(train_num)>>)>>))}
    \cup {Json(JsonList(<<i>>)) : i \in Instances(train_num)}

MdY(d) == [fmt |-> "mdY", v |-> d]

ArchiveRow(station, origin) ==
    Cells(7, station, origin, TsEmpty, TsEmpty, TsSlash(origin.v, 28800), TsSlash(origin.v, 28980))

ShortRow == Cells(2, "LOR", MdY(1), TsEmpty, TsEmpty, TsEmpty, TsEmpty)

Page(rows) == [kind |-> "ok", rows |-> rows]

NoPage(kind) == [kind |-> kind, rows |-> <<>>]

\* What the archive endpoint may answer for a train.
AsmadResponses(train_num) ==
    LET o == TRAIN_CONFIG[train_num][1]
        q == TRAIN_CONFIG[train_num][2]
    IN  {NoPage("error"), NoPage("notables"), NoPage("nodatatable"), Page(<<>>),
         Page(<<ShortRow, ArchiveRow("WAS", MdY(1)), ArchiveRow(q, MdY(1))>>),
         Page(<<ArchiveRow(o, EmptyText)>>),
         Page(<<ArchiveRow(o, [fmt |-> "mdy", v |-> 1]), ArchiveRow(o, Ymd(1))>>)}
        \cup {Page(<<ArchiveRow(o, MdY(d)), ArchiveRow(q, MdY(d))>>) : d \in Days}

\* args.date when --date is not given: None.
NoDateArg == [kind |-> "none", d |-> 0]

\* The --date argument: absent, the empty string, a valid YYYY-MM-DD date,
\* or other text.
DateArgs ==
    {NoDateArg, [kind |-> "empty", d |-> 0], [kind |-> "bad", d |-> 0]}
    \cup {[kind |-> "ymd", d |-> d] : d \in Days}

BackfillDays == {1, DefaultBackfillDays}

(***************************************************************************)
(* Actions.                                                                *)
(***************************************************************************)
\* The calendar date changes (midnight passes).
Tick ==
    /\ today < MaxDay
    /\ today' = today + 1
    /\ ticked' = TRUE
    /\ UNCHANGED <<store, fileExists, pc, dt, start, end, idx, status, last, runs,
                   mode, storeAtStart, prev, tickedPrev, target_date>>
    /\ UNCHANGED <<srcVars, delayVars, colVars>>

\* What every start of a run records.
BeginRun(m) ==
    /\ pc = "idle"
    /\ runs < MaxRuns
    /\ runs' = runs + 1
    /\ mode' = m
    /\ prev' = [mode |-> mode, dt |-> dt, status |-> status]
    /\ storeAtStart' = init_csv
    /\ tickedPrev' = ticked
    /\ ticked' = FALSE
    /\ last' = NoCalls
    /\ idx' = 1
    /\ store' = init_csv
    /\ fileExists' = TRUE
    /\ UNCHANGED today
    /\ UNCHANGED <<srcVars, delayVars, colVars>>

\* main() without --backfill: init_csv(), then run_daily up to its loop.
StartDaily(arg) ==
    /\ BeginRun("daily")
    /\ UNCHANGED <<start, end>>
    /\ IF arg.kind = "bad"
       THEN /\ dt' = 0
            /\ pc' = "idle"
            /\ status' = "raised"
       ELSE /\ dt' = IF arg.kind = "ymd" THEN arg.d ELSE today
            /\ pc' = "daily"
            /\ status' = "ok"

\* main() with --backfill: init_csv(), then run_backfill up to its loop.
StartBackfill(days) ==
    /\ BeginRun("backfill")
    /\ UNCHANGED target_date
    /\ start' = today - days
    /\ end' = today
    /\ dt' = 0
    /\ pc' = "backfill"
    /\ status' = "ok"

\* The end of a loop iteration with outcome out: the next route, the end of
\* the run, or the exception that ends it.
Advance(out) ==
    /\ store' = out.store
    /\ last' = out.log
    /\ status' = IF out.raised THEN "raised" ELSE "ok"
    /\ IF out.raised \/ idx = Len(TrainOrder)
       THEN pc' = "idle" /\ idx' = idx
       ELSE pc' = pc /\ idx' = idx + 1
    /\ UNCHANGED <<fileExists, today, dt, start, end, runs, mode, storeAtStart,
                   prev, ticked, tickedPrev, target_date>>
    /\ UNCHANGED <<srcVars, delayVars, colVars>>

\* One iteration of run_daily's loop.
DailyRoute(rtResp, asmadResp) ==
    /\ pc = "daily"
    /\ Advance(DailyIteration(rtResp, asmadResp, TrainOrder[idx]))

\* One iteration of run_backfill's loop.
BackfillRoute(asmadResp) ==
    /\ pc = "backfill"
    /\ Advance(BackfillIteration(asmadResp, TrainOrder[idx]))

\* The responses that matter to the iteration about to run: an endpoint
\* that is not asked answers nothing.
RtAsked(train_num) ==
    IF DailyIteration(Failed("neterr"), NoPage("error"), train_num).log.rt = 0
    THEN {Failed("neterr")}
    ELSE RtResponses(train_num)

AsmadAsked(rtResp, train_num) ==
    IF DailyIteration(rtResp, NoPage("error"), train_num).log.hist = 0
    THEN {NoPage("error")}
    ELSE AsmadResponses(train_num)

NoSource == [t \in {53, 52} |-> NoPage("error")]

InitRun(rows) ==
    /\ store = rows
    /\ fileExists \in BOOLEAN
    /\ today = 1
    /\ pc = "idle"
    /\ dt = 0
    /\ start = 0
    /\ end = 0
    /\ idx = 1
    /\ status = "ok"
    /\ last = NoCalls
    /\ runs = 0
    /\ mode = "none"
    /\ storeAtStart = rows
    /\ prev = [mode |-> "none", dt |-> 0, status |-> "ok"]
    /\ ticked = FALSE
    /\ tickedPrev = FALSE
    /\ target_date = NoDateArg

Init ==
    /\ InitRun(<<>>)
    /\ rtSrc = NoSource
    /\ asmadSrc = NoSource
    /\ scheduled = TsEmpty
    /\ actual = TsEmpty
    /\ delay = [done |-> FALSE, raised |-> FALSE, val |-> None]
    /\ headerRow = <<>>
    /\ cols = NoCols

Next ==
    \/ Tick
    \/ \E arg \in DateArgs : StartDaily(arg) /\ UNCHANGED target_date
    \/ \E days \in BackfillDays : StartBackfill(days)
    \/ \E rtResp \in RtAsked(TrainOrder[idx]) :
          \E asmadResp \in AsmadAsked(rtResp, TrainOrder[idx]) :
            DailyRoute(rtResp, asmadResp)
    \/ \E asmadResp \in AsmadResponses(TrainOrder[idx]) : BackfillRoute(asmadResp)

Spec == Init /\ [][Next]_vars

(***************************************************************************)
(* parse_delay_minutes on its own: the arguments are drawn, then the       *)
(* function is applied.                                                    *)
(***************************************************************************)
\* 08:00:00, 08:07:00 and 08:00:30.
ClockTimes == {28800, 29220, 28830}

TsInputs ==
    {TsEmpty, TsJunk}
    \cup {TsIso(d, s) : d \in {1, MaxDay}, s \in ClockTimes}
    \cup {TsIsoTz(1, s, off) : s \in ClockTimes, off \in {0, 0 - 18000}}
    \cup {TsSlash(1, s) : s \in {28800, 29220}}

CallParseDelay ==
    /\ ~delay.done
    /\ delay' = [done |-> TRUE,
                 raised |-> DelayCall(scheduled, actual).raised,
                 val |-> parse_delay_minutes(scheduled, actual)]
    /\ UNCHANGED <<scheduled, actual>>
    /\ UNCHANGED <<runVars, srcVars, colVars>>

InitDelay ==
    /\ InitRun(<<>>)
    /\ fileExists = FALSE
    /\ rtSrc = NoSource
    /\ asmadSrc = NoSource
    /\ scheduled \in TsInputs
    /\ actual \in TsInputs
    /\ delay = [done |-> FALSE, raised |-> FALSE, val |-> None]
    /\ headerRow = <<>>
    /\ cols = NoCols

SpecDelay == InitDelay /\ [][CallParseDelay]_vars

(***************************************************************************)
(* Column discovery on its own: a header row is drawn, then the idx_*      *)
(* values are assigned.                                                    *)
(***************************************************************************)
HeaderCells ==
    {<<"S", "t", "a", "t", "i", "o", "n">>,
     <<"O", "r", "i", "g", "i", "n", " ", "D", "a", "t", "e">>,
     <<"S", "c", "h", " ", "A", "r">>,
     <<"A", "c", "t", " ", "A", "r">>,
     <<"S", "c", "h", " ", "D", "p">>,
     <<"A", "c", "t", " ", "D", "p">>,
     <<"C", "o", "m", "m", "e", "n", "t", "s">>}

\* Every ordering of the seven header cells, and of every six of them.
HeaderRows ==
    {row \in UNION {[1..n -> HeaderCells] :
                      n \in {Cardinality(HeaderCells) - 1, Cardinality(HeaderCells)}} :
        \A i, j \in 1..Len(row) : i # j => row[i] # row[j]}

FindColumns ==
    /\ ~cols.done
    /\ cols' = ResolveColumns(headerRow)
    /\ UNCHANGED headerRow
    /\ UNCHANGED <<runVars, srcVars, delayVars>>

InitCols ==
    /\ InitRun(<<>>)
    /\ fileExists = FALSE
    /\ rtSrc = NoSource
    /\ asmadSrc = NoSource
    /\ scheduled = TsEmpty
    /\ actual = TsEmpty
    /\ delay = [done |-> FALSE, raised |-> FALSE, val |-> None]
    /\ headerRow \in HeaderRows
    /\ cols = NoCols

SpecCols == InitCols /\ [][FindColumns]_vars

(***************************************************************************)
(* Single-date runs against endpoints whose answers do not change: each    *)
(* train's realtime payload and archive page are drawn once.               *)
(***************************************************************************)
RtFixed(train_num) ==
    {Failed("neterr"), Json(JsonNull),
     Json(JsonList(<<Instance(<<OriginStn(train_num, 1), DestStn(train_num, 1)>>)>>)),
     Json(JsonList(<<Instance(<<OriginNoDep(train_num)>>),
                     Instance(<<OriginNoDep(train_num)>>)>>))}

AsmadFixed(train_num) ==
    LET o == TRAIN_CONFIG[train_num][1]
        q == TRAIN_CONFIG[train_num][2]
    IN  {NoPage("error"),
         Page(<<ArchiveRow(o, MdY(1)), ArchiveRow(q, MdY(1))>>),
         Page(<<ArchiveRow(o, EmptyText), ArchiveRow(q, MdY(MaxDay))>>)}

\* Stores an earlier backfill iteration leaves behind.
EarlierStores ==
    {<<>>} \cup {fetch_asmad(p, 53, TRAIN_CONFIG[53]) : p \in AsmadResponses(53)}

InitIdem ==
    /\ \E rows \in EarlierStores : InitRun(rows)
    /\ fileExists = TRUE
    /\ rtSrc \in [{53, 52} -> RtFixed(53) \cup RtFixed(52)]
    /\ \A t \in {53, 52} : rtSrc[t] \in RtFixed(t)
    /\ asmadSrc \in [{53, 52} -> AsmadFixed(53) \cup AsmadFixed(52)]
    /\ \A t \in {53, 52} : asmadSrc[t] \in AsmadFixed(t)
    /\ scheduled = TsEmpty
    /\ actual = TsEmpty
    /\ delay = [done |-> FALSE, raised |-> FALSE, val |-> None]
    /\ headerRow = <<>>
    /\ cols = NoCols

NextIdem ==
    \/ Tick
    \/ \E arg \in DateArgs : StartDaily(arg) /\ target_date' = arg
    \/ DailyRoute(rtSrc[TrainOrder[idx]], asmadSrc[TrainOrder[idx]])

SpecIdem == InitIdem /\ [][NextIdem]_vars

(***************************************************************************)
(* Single-date runs against a realtime endpoint that answers with one      *)
(* instance of the train holding each station of the route once, the       *)
(* archive being out of reach.                                             *)
(***************************************************************************)
\* A timestamp string of day d, s seconds after midnight, with the offset
\* -05:00 or without one.
TsOf(form, d, s) == IF form = "isoTz" THEN TsIsoTz(d, s, 0 - 18000) ELSE TsIso(d, s)

\* The origin: scheduled out 08:00, out 08:03.
OriginAt(train_num, form, d) ==
    Stn(TRAIN_CONFIG[train_num][1], TsEmpty, TsEmpty,
        TsOf(form, d, 28800), TsOf(form, d, 28980))

\* The destination: scheduled in 20:00, in 20:45 or not in yet.
DestAt(train_num, form, d, arrived) ==
    Stn(TRAIN_CONFIG[train_num][2], TsOf(form, d, 72000),
        IF arrived THEN TsOf(form, d, 74700) ELSE TsEmpty, TsEmpty, TsEmpty)

RouteInstances(train_num) ==
    {Instance(<<OriginAt(train_num, form, d), DestAt(train_num, form, d, arrived)>>) :
        form \in {"isoTz", "iso"}, d \in Days, arrived \in BOOLEAN}
    \cup {Instance(<<DestAt(train_num, "isoTz", d, TRUE), OtherStn,
                     OriginAt(train_num, "isoTz", d)>>) : d \in Days}
    \cup {Instance(<<OriginNoDep(train_num), DestAt(train_num, "isoTz", d, TRUE)>>) :
            d \in Days}

RtRoute(train_num) ==
    {Failed("neterr")} \cup {Json(JsonList(<<i>>)) : i \in RouteInstances(train_num)}

InitRealtime ==
    /\ InitRun(<<>>)
    /\ rtSrc \in [{53, 52} -> RtRoute(53) \cup RtRoute(52)]
    /\ \A t \in {53, 52} : rtSrc[t] \in RtRoute(t)
    /\ asmadSrc = NoSource
    /\ scheduled = TsEmpty
    /\ actual = TsEmpty
    /\ delay = [done |-> FALSE, raised |-> FALSE, val |-> None]
    /\ headerRow = <<>>
    /\ cols = NoCols

SpecRealtime == InitRealtime /\ [][NextIdem]_vars

(***************************************************************************)
(* Backfill runs against an archive whose answer for each train does not   *)
(* change from one run to the next.                                        *)
(***************************************************************************)
InitBackfill ==
    /\ \E rows \in EarlierStores : InitRun(rows)
    /\ rtSrc = NoSource
    /\ asmadSrc \in [{53, 52} -> AsmadResponses(53) \cup AsmadResponses(52)]
    /\ \A t \in {53, 52} : asmadSrc[t] \in AsmadResponses(t)
    /\ scheduled = TsEmpty
    /\ actual = TsEmpty
    /\ delay = [done |-> FALSE, raised |-> FALSE, val |-> None]
    /\ headerRow = <<>>
    /\ cols = NoCols

NextBackfill ==
    \/ Tick
    \/ \E days \in BackfillDays : StartBackfill(days)
    \/ BackfillRoute(asmadSrc[TrainOrder[idx]])

SpecBackfill == InitBackfill /\ [][NextBackfill]_vars

(***************************************************************************)
(* Properties.                                                             *)
(***************************************************************************)
\* A row with key k is among rows.
Stored(rows, k) == \E i \in 1..Len(rows) : Key(rows[i]) = k

IsPrefix(a, b) == Len(a) <= Len(b) /\ SubSeq(b, 1, Len(a)) = a

\* a can be had from b by dropping elements of b.
RECURSIVE IsSubSeq(_, _)
IsSubSeq(a, b) ==
    IF a = <<>> THEN TRUE
    ELSE IF b = <<>> THEN FALSE
    ELSE IF Head(a) = Head(b) THEN IsSubSeq(Tail(a), Tail(b))
    ELSE IsSubSeq(a, Tail(b))

\* The rows of a sequence whose key is not among held.
Unrecorded(held, rows) == SelectSeq(rows, LAMBDA r : ~Stored(held, Key(r)))

\* The latest run is a single-date run and last describes an iteration of it.
DailyDone == mode = "daily" /\ last.train # 0

\* Every station of the route of the latest iteration was stored for the
\* target date when the iteration began.
RouteStored ==
    \A s \in Range(TRAIN_CONFIG[last.train]) :
        Stored(last.before, <<Ymd(dt), s, ToString(last.train)>>)

\* C1: no two rows of the store have the same (date, station, train_num).
KeyUniqueness ==
    \A i, j \in 1..Len(store) : i # j => Key(store[i]) # Key(store[j])

\* C3: when run_daily, for today's date, asks the realtime adapter about a
\* route and gets no rows, it asks the archive about that route for exactly
\* that date, and appends exactly the archive's rows whose key was not stored.
FallbackOnEmpty ==
    (DailyDone /\ dt = last.now /\ last.rt = 1 /\ last.rtOut = "empty")
        => /\ last.hist = 1
           /\ last.hstart = dt
           /\ last.hend = dt
           /\ \A i \in 1..Len(last.got) :
                /\ last.got[i].source = "asmad"
                /\ last.got[i].train_num = ToString(last.train)
           /\ store = last.before \o Unrecorded(last.before, last.got)

FallbackOnEmptyWitness ==
    /\ DailyDone
    /\ dt = last.now
    /\ last.rtOut = "empty"
    /\ last.hist = 1
    /\ Len(last.got) > 1
    /\ Len(last.before) > 0
    /\ Len(store) = Len(last.before) + 1

\* C4: when the realtime adapter returns rows for a route, run_daily does
\* not ask the archive about that route, whether it appended any of the rows
\* or found them all recorded.
NoFallbackOnRows ==
    (DailyDone /\ last.rtOut = "rows")
        => /\ last.rt = 1
           /\ last.hist = 0
           /\ \A i \in 1..Len(last.got) : last.got[i].source = "amtraker_v3"
           /\ store = last.before \o Unrecorded(last.before, last.got)

NoFallbackOnRowsWitness ==
    /\ DailyDone
    /\ last.rtOut = "rows"
    /\ last.got # <<>>
    /\ last.hist = 0
    /\ store = last.before
    /\ \A i \in 1..Len(last.got) : Stored(last.before, Key(last.got[i]))

\* C6: no exception leaves fetch_realtime.
RealtimeNeverRaises == last.rtOut # "raised"

\* C7: every step leaves the rows the store held in place and in order, and
\* adds rows only at the end, in the order the adapter returned them.
AppendOnly ==
    [][/\ IsPrefix(store, store')
       /\ store' # store =>
            IsSubSeq(SubSeq(store', Len(store) + 1, Len(store')), last'.got)]_vars

AppendOnlyWitness ==
    /\ runs = 2
    /\ Len(storeAtStart) > 1
    /\ Len(store) > Len(storeAtStart) + 1

\* C8: when every station of the route is stored for the target date,
\* run_daily asks neither adapter about the route and leaves the store as it is.
ShortCircuit ==
    (DailyDone /\ RouteStored)
        => /\ last.short
           /\ last.rt = 0
           /\ last.hist = 0
           /\ store = last.before

ShortCircuitWitness ==
    /\ DailyDone
    /\ RouteStored
    /\ last.train = 52
    /\ last.rt = 0
    /\ last.hist = 0
    /\ store = last.before

\* C9: when the target date is not the current date, run_daily does not ask
\* the realtime adapter, and for a route that is not fully stored it asks
\* the archive once, for exactly the target date.
PastDateSkipsRealtime ==
    (DailyDone /\ dt # last.now)
        => /\ last.rt = 0
           /\ ~RouteStored =>
                /\ last.hist = 1
                /\ last.hstart = dt
                /\ last.hend = dt

PastDateSkipsRealtimeWitness ==
    /\ DailyDone
    /\ dt # last.now
    /\ ~RouteStored
    /\ last.train = 52
    /\ last.rt = 0
    /\ last.hist = 1
    /\ last.hstart = dt
    /\ last.got # <<>>

\* C10: a run appends no row whose key the store held when the run started,
\* whatever the sources of the two rows.
FirstWriteWins ==
    /\ IsPrefix(storeAtStart, store)
    /\ \A i \in (Len(storeAtStart) + 1)..Len(store) :
            ~Stored(storeAtStart, Key(store[i]))

FirstWriteWinsWitness ==
    /\ mode \in {"daily", "backfill"}
    /\ store = storeAtStart
    /\ \E i \in 1..Len(last.got) : \E j \in 1..Len(storeAtStart) :
            /\ Key(storeAtStart[j]) = Key(last.got[i])
            /\ storeAtStart[j].source # last.got[i].source

\* C2: of two single-date runs in succession for the same date, against
\* endpoints that answer the same, the second appends nothing, provided the
\* current date did not change from the start of the first run on.
SecondRunAppendsNothing ==
    (mode = "daily" /\ prev.mode = "daily" /\ prev.dt = dt /\ ~ticked /\ ~tickedPrev)
        => store = storeAtStart

SecondRunAppendsNothingWitness ==
    /\ runs = 2
    /\ pc = "idle"
    /\ status = "ok"
    /\ mode = "daily"
    /\ prev.mode = "daily"
    /\ prev.dt = dt
    /\ ~ticked
    /\ ~tickedPrev
    /\ ~last.short
    /\ last.got # <<>>
    /\ store = storeAtStart

\* C2 as stated, for runs that no exception ended: of two single-date runs
\* in succession for the same date, against endpoints that answer the same,
\* the second appends nothing.
SecondRunAppendsNothingAnyClock ==
    (/\ mode = "daily" /\ prev.mode = "daily" /\ prev.dt = dt
     /\ pc = "idle" /\ status = "ok" /\ prev.status = "ok")
        => store = storeAtStart

\* C5: for two ISO-8601 timestamps without an offset, parse_delay_minutes
\* returns the difference actual - scheduled in minutes.
DelayOfOffsetlessIso ==
    (delay.done /\ scheduled.k = "iso" /\ actual.k = "iso")
        => delay.val = Some(Round((actual.d * DaySeconds + actual.s)
                                  - (scheduled.d * DaySeconds + scheduled.s)))

\* The wall-clock time a timestamp string shows, in seconds.
LocalSecs(ts) == ts.d * DaySeconds + ts.s

\* C11: parse_delay_minutes never raises and returns absent or one integer;
\* it returns absent when an argument is empty or in no accepted format; and
\* when exactly one argument carries an offset, the offset is dropped and
\* the result is the difference of the wall-clock times.
DelayTotal ==
    delay.done
        => /\ ~delay.raised
           /\ delay.val = None \/ (Len(delay.val) = 1 /\ delay.val[1] \in Int)
           /\ (scheduled.k \in {"empty", "junk"} \/ actual.k \in {"empty", "junk"})
                => delay.val = None
           /\ ({scheduled.k, actual.k} = {"isoTz", "slash"})
                => delay.val = Some(Round(LocalSecs(actual) - LocalSecs(scheduled)))

DelayTotalWitness ==
    /\ delay.done
    /\ scheduled.k = "isoTz"
    /\ scheduled.off # 0
    /\ actual.k = "slash"
    /\ delay.val = Some(7)

\* The rows of a sequence have pairwise distinct keys.
DistinctKeys(rows) ==
    \A i, j \in 1..Len(rows) : i # j => Key(rows[i]) # Key(rows[j])

\* C12: an iteration of run_backfill asks the archive once, for the whole
\* range start..end, and never asks the realtime adapter; when the rows it
\* gets have pairwise distinct keys, none of them stored, it appends them
\* all; and a backfill run that follows a backfill run against the same
\* archive answers appends nothing.
BackfillOnce ==
    (mode = "backfill" /\ last.train # 0)
        => /\ last.rt = 0
           /\ last.hist = 1
           /\ last.hstart = start
           /\ last.hend = end
           /\ last.hend - last.hstart \in BackfillDays
           /\ last.hend <= last.now
           /\ (/\ DistinctKeys(last.got)
               /\ \A i \in 1..Len(last.got) : ~Stored(last.before, Key(last.got[i])))
                => store = last.before \o last.got
           /\ prev.mode = "backfill" => store = storeAtStart

BackfillOnceWitness ==
    /\ runs = 2
    /\ pc = "idle"
    /\ mode = "backfill"
    /\ prev.mode = "backfill"
    /\ Len(last.got) = 2
    /\ DistinctKeys(last.got)
    /\ Len(store) = 4
    /\ DistinctKeys(store)
    /\ store = storeAtStart

\* The instant a timestamp string names, in seconds.
Instant(ts) == LocalSecs(ts) - ts.off

\* actual - scheduled in minutes; absent where a time is missing.
MinutesBetween(sch, act) ==
    IF sch.k = "empty" \/ act.k = "empty" THEN None
    ELSE Some(Round(Instant(act) - Instant(sch)))

\* The realtime answer for a train is one instance holding each station of
\* the route once.
OneInstanceOfRoute(train_num) ==
    /\ rtSrc[train_num].kind = "json"
    /\ rtSrc[train_num].data.t = "list"
    /\ Len(rtSrc[train_num].data.items) = 1
    /\ \A s \in Range(TRAIN_CONFIG[train_num]) :
         Cardinality({i \in 1..Len(rtSrc[train_num].data.items[1].stations) :
                        rtSrc[train_num].data.items[1].stations[i].code = s}) = 1

\* C13: a single-date run for today, against an empty store and a realtime
\* answer of one instance holding each station of the route once, appends
\* one row for each station of the route, its source the realtime adapter,
\* each delay actual - scheduled in minutes and absent where a time is missing.
RealtimeEndToEnd ==
    (/\ DailyDone
     /\ dt = last.now
     /\ last.before = <<>>
     /\ last.rt = 1
     /\ OneInstanceOfRoute(last.train))
        => LET stns == rtSrc[last.train].data.items[1].stations
           IN  /\ Len(store) = Len(TRAIN_CONFIG[last.train])
               /\ \A s \in Range(TRAIN_CONFIG[last.train]) :
                    \E i \in 1..Len(store) : \E j \in 1..Len(stns) :
                        /\ store[i].station = s
                        /\ stns[j].code = s
                        /\ store[i].train_num = ToString(last.train)
                        /\ store[i].source = "amtraker_v3"
                        /\ store[i].arrival_delay_mins
                             = MinutesBetween(stns[j].schArr, stns[j].arr)
                        /\ store[i].departure_delay_mins
                             = MinutesBetween(stns[j].schDep, stns[j].dep)

\* The positions, counted from 0, of the header cells that hold every
\* keyword of one of the keyword lists.
MatchingCells(kwLists) ==
    {i \in 0..(Len(headerRow) - 1) :
        \E kw \in kwLists : AllIn(Lower(headerRow[i + 1]), kw)}

Resolved(index, kwLists) ==
    IF MatchingCells(kwLists) = {} THEN index = None
    ELSE \E i \in MatchingCells(kwLists) : index = Some(i)

\* C14: each of the seven fields resolves to the position of the header
\* cell that holds its keywords, wherever that cell is, and to absent only
\* when no header cell holds them.
ColumnDiscovery ==
    cols.done
        => /\ Resolved(cols.idx_station, {KwStation})
           /\ Resolved(cols.idx_origin_date, {KwOrigin, KwDate})
           /\ Resolved(cols.idx_sch_arr, {KwSchAr})
           /\ Resolved(cols.idx_act_arr, {KwActAr})
           /\ Resolved(cols.idx_sch_dep, {KwSchDp, KwSchDep})
           /\ Resolved(cols.idx_act_dep, {KwActDp, KwActDep})
           /\ Resolved(cols.idx_comments, {KwComment, KwStatus})

\* The service date of the one instance the realtime endpoint answers with
\* for a train: the date of the scheduled departure at the route's origin
\* where that is a parseable time, the current date otherwise.
InstanceDate(train_num, now) ==
    LET stns == rtSrc[train_num].data.items[1].stations
        origin == TRAIN_CONFIG[train_num][1]
    IN  IF \E j \in 1..Len(stns) :
              stns[j].code = origin /\ stns[j].schDep.k \in {"isoTz", "iso"}
        THEN Ymd(stns[CHOOSE j \in 1..Len(stns) :
                        stns[j].code = origin /\ stns[j].schDep.k \in {"isoTz", "iso"}].schDep.d)
        ELSE Ymd(now)

\* C15: every row the realtime adapter makes from one train instance has
\* the same date, that of the scheduled departure at the origin (the current
\* date when there is none), wherever the origin stands among the
\* instance's stations.
ServiceDateOnce ==
    (DailyDone /\ last.rt = 1 /\ OneInstanceOfRoute(last.train))
        => \A i \in 1..Len(last.got) :
              last.got[i].source = "amtraker_v3"
                => last.got[i].date = InstanceDate(last.train, last.now)

\* C16: every row of the file has a train number of TRAIN_CONFIG and a
\* station of that train's list; stations outside the list are never stored.
StoreMembership ==
    \A i \in 1..Len(store) :
        \E t \in DOMAIN TRAIN_CONFIG :
            /\ store[i].train_num = ToString(t)
            /\ store[i].station \in Range(TRAIN_CONFIG[t])

StoreMembershipWitness ==
    /\ last.train # 0
    /\ last.hist = 1
    /\ last.got = fetch_asmad(Page(<<ShortRow, ArchiveRow("WAS", MdY(1)),
                                     ArchiveRow(TRAIN_CONFIG[last.train][2], MdY(1))>>),
                              last.train, TRAIN_CONFIG[last.train])
    /\ Len(last.got) = 1
    /\ \E i \in 1..Len(store) : store[i].source = "amtraker_v3"
    /\ \E i \in 1..Len(store) : store[i].source = "asmad"

\* C17: a single-date run given a date string that is no YYYY-MM-DD date
\* ends in the exception, with no adapter asked about any route and no row
\* appended.
InvalidDateFatal ==
    (mode = "daily" /\ target_date.kind \in {"bad", "empty"})
        => /\ pc = "idle"
           /\ status = "raised"
           /\ last = NoCalls
           /\ store = storeAtStart

\* C18: every row an iteration of a single-date run for the date dt appends
\* has the date dt.
AppendedForTargetDate ==
    DailyDone
        => \A i \in (Len(last.before) + 1)..Len(store) : store[i].date = Ymd(dt)

====
